---- MODULE Spec2Model ----
(***************************************************************************)
(* Model of the percentage-based ReportWithMapOverlay component            *)
(* (src/src/components/reports/ReportWithMapOverlay.tsx, second variant,   *)
(* lines 68-399): the overlay rectangle `pos`, the drag state held in      *)
(* `dragRef`, the calibration flag, the document-level listeners and the   *)
(* body style overrides, driven by the component's event handlers and      *)
(* effects.                                                                *)
(*                                                                         *)
(* Percentages are fixed-point numbers: the integer q stands for q / 8     *)
(* percent, so that 12.375 is representable and is exact as a double too.  *)
(* Pixel coordinates are integers.  Pointer coordinates and container      *)
(* extents are chosen so that (delta / extent) * 100 is a whole number of  *)
(* eighths, so the integer quotient below is the exact value the code      *)
(* computes.                                                               *)
(***************************************************************************)
EXTENDS Integers, FiniteSets, Sequences, TLC

VARIABLES
    mounted,            \* the component instance is mounted
    props,              \* mapTopPct, mapLeftPct, mapWidthPct, mapHeightPct
    enableCalibration,  \* the enableCalibration prop
    calibrating,        \* useState(false), line 131
    pos,                \* useState<Position>, line 132
    dragRef,            \* useRef<DragState | null>, line 129
    docListeners,       \* event names with a listener of this component on document
    bodyUserSelect,     \* document.body.style.userSelect
    bodyCursor,         \* document.body.style.cursor
    gestures,           \* number of pointer-downs so far (bounds the exploration)
    lastEvent,          \* the handler that ran last and the percentage
                        \* delta it computed (observation only)
    copied,             \* useState(false), line 138
    navigatorClipboard, \* "present" or "undefined": navigator.clipboard
    clipboardWrites,    \* texts of the writeText promises still pending
    copiedTimers,       \* pending setTimeout(() => setCopied(false), 2000)
    uncaughtError,      \* an exception escaped a handler to the host page
    copies,             \* number of copy clicks so far (bounds the exploration)
    overlayBox,         \* the overlay's pixel box at the last layout, with
                        \* the host box it was laid out in
    \* ArcGISMap (src/unnamed/part_001)
    mapPhase,           \* "rendered" (effect not yet run), "mounted", "unmounted"
    mapConfig,          \* resolvedApiKey, resolvedClientId, resolvedWebMapId
    status,             \* useState("loading"), lines 56-58
    errorMessage,       \* useState(null), line 59
    userName,           \* useState(null), line 60
    authMode,           \* useState("apiKey"), line 61
    viewRef,            \* viewRef.current: 0 for null, else the run that made the view
    esriApiKey,         \* esriConfig.apiKey
    runs,               \* the initMap runs started so far, each with its
                        \* closure (config, cancelled), await point, view
                        \* and the ArcGIS calls it has made
    activeRun,          \* the run whose cleanup React holds, 0 for none
    \* ReportList (src/src/app/reports/ReportList.tsx)
    reports,            \* useState([]), line 16
    selected,           \* useState(null), line 17
    message,            \* useState(null), line 18
    loading,            \* useState(true), line 19
    request             \* the fetch of /api/reports: "pending" or "settled"

\* the copy-out state and the rendered box
viewVars == <<copied, navigatorClipboard, clipboardWrites, copiedTimers,
              uncaughtError, copies, overlayBox>>

mapVars == <<mapPhase, mapConfig, status, errorMessage, userName, authMode,
             viewRef, esriApiKey, runs, activeRun>>

listVars == <<reports, selected, message, loading, request>>

\* the components other than the overlay
restVars == <<mapVars, listVars>>

overlayVars == <<mounted, props, enableCalibration, calibrating, pos, dragRef,
                 docListeners, bodyUserSelect, bodyCursor, gestures>>

vars == <<mounted, props, enableCalibration, calibrating, pos, dragRef,
          docListeners, bodyUserSelect, bodyCursor, gestures, lastEvent,
          copied, navigatorClipboard, clipboardWrites, copiedTimers,
          uncaughtError, copies, overlayBox,
          mapPhase, mapConfig, status, errorMessage, userName, authMode,
          viewRef, esriApiKey, runs, activeRun,
          reports, selected, message, loading, request>>

----------------------------------------------------------------------------
(* Bounds *)

\* pointer-downs explored in one behaviour
MaxGestures == 2

\* copy clicks explored in one behaviour
MaxCopies == 2

\* initMap runs started in one behaviour
MaxRuns == 2

\* longest listing the reports service returns
MaxListing == 3

\* pointer coordinates of SpecGeom are 0, 50, ..., 50 * MaxCoordIdx pixels on
\* each axis
MaxCoordIdx == 1

ClientCoords == {50 * k : k \in 0..MaxCoordIdx}

\* pointer positions <<clientX, clientY>> of the events of Spec
ClientPoints == {<<0, 0>>, <<50, 100>>}

\* container.getBoundingClientRect() as read by a pointer-move
ContainerRects == {[width |-> 200, height |-> 200]}

----------------------------------------------------------------------------
(* Types *)

\* the number n (a percentage) in the model's fixed-point representation
Pct(n) == 8 * n

Position(t, l, w, h) == [topPct |-> t, leftPct |-> l, widthPct |-> w, heightPct |-> h]

\* a Position given in whole percents
Rect(t, l, w, h) == Position(Pct(t), Pct(l), Pct(w), Pct(h))

\* default values of mapTopPct, mapLeftPct, mapWidthPct, mapHeightPct
DefaultProps == Rect(25, 55, 43, 65)

\* externally supplied percentage props; every one is a valid rectangle
PropRects == {DefaultProps, Rect(10, 10, 10, 10)}

DragTypes == {"move", "resize-se", "resize-sw", "resize-ne", "resize-nw"}

NoDrag == [type |-> "null"]

\* nothing has been laid out yet
NoBox == [host |-> "none"]

\* what lastEvent records: dxPct, dyPct are 0 unless a gesture was updated
Event(name, dxPct, dyPct) == [name |-> name, dxPct |-> dxPct, dyPct |-> dyPct]

DragState(type, x, y, p) == [type |-> type, startX |-> x, startY |-> y, startPos |-> p]

\* the minimum extent used by every resize case, in percent
MinExtent == 5

\* the ProportionalRect invariant of the data model
IsValid(r) ==
    /\ 0 <= r.topPct
    /\ 0 <= r.leftPct
    /\ r.topPct + r.heightPct <= Pct(100)
    /\ r.leftPct + r.widthPct <= Pct(100)
    /\ r.widthPct >= Pct(MinExtent)
    /\ r.heightPct >= Pct(MinExtent)

----------------------------------------------------------------------------
(* Geometry *)

MathMin(a, b) == IF a <= b THEN a ELSE b

MathMax(a, b) == IF a >= b THEN a ELSE b

\* clamp without its upper bound
clamp_noUpper(val, min, max) == MathMax(val, min)

clamp(val, min, max) == MathMin(MathMax(val, min), max)

\* ((e.clientX - drag.startX) / rect.width) * 100
PctDelta(client, start, extent) == ((client - start) * Pct(100)) \div extent

\* move computed from the live rectangle instead of the anchor snapshot
caseMove_incremental(s, prev, dxPct, dyPct) ==
    [prev EXCEPT
        !.topPct = clamp(prev.topPct + dyPct, 0, Pct(100) - s.heightPct),
        !.leftPct = clamp(prev.leftPct + dxPct, 0, Pct(100) - s.widthPct)]

\* move clamped to the container's extent instead of the room left by the rectangle
caseMove_fullRange(s, prev, dxPct, dyPct) ==
    [prev EXCEPT
        !.topPct = clamp(s.topPct + dyPct, 0, Pct(100)),
        !.leftPct = clamp(s.leftPct + dxPct, 0, Pct(100))]

caseMove(s, prev, dxPct, dyPct) ==
    [prev EXCEPT
        !.topPct = clamp(s.topPct + dyPct, 0, Pct(100) - s.heightPct),
        !.leftPct = clamp(s.leftPct + dxPct, 0, Pct(100) - s.widthPct)]

\* southeast resize floored at zero instead of the minimum extent
caseResizeSE_zeroFloor(s, prev, dxPct, dyPct) ==
    [prev EXCEPT
        !.widthPct = clamp(s.widthPct + dxPct, 0, Pct(100) - s.leftPct),
        !.heightPct = clamp(s.heightPct + dyPct, 0, Pct(100) - s.topPct)]

caseResizeSE(s, prev, dxPct, dyPct) ==
    [prev EXCEPT
        !.widthPct = clamp(s.widthPct + dxPct, Pct(MinExtent), Pct(100) - s.leftPct),
        !.heightPct = clamp(s.heightPct + dyPct, Pct(MinExtent), Pct(100) - s.topPct)]

\* southwest resize whose left edge forgets the width's clamp
caseResizeSW_rawLeft(s, prev, dxPct, dyPct) ==
    LET newWidth == clamp(s.widthPct - dxPct, Pct(MinExtent), s.leftPct + s.widthPct)
        newLeft == s.leftPct + dxPct
    IN  [prev EXCEPT
            !.leftPct = newLeft,
            !.widthPct = newWidth,
            !.heightPct = clamp(s.heightPct + dyPct, Pct(MinExtent), Pct(100) - s.topPct)]

caseResizeSW(s, prev, dxPct, dyPct) ==
    LET newWidth == clamp(s.widthPct - dxPct, Pct(MinExtent), s.leftPct + s.widthPct)
        newLeft == s.leftPct + (s.widthPct - newWidth)
    IN  [prev EXCEPT
            !.leftPct = newLeft,
            !.widthPct = newWidth,
            !.heightPct = clamp(s.heightPct + dyPct, Pct(MinExtent), Pct(100) - s.topPct)]

caseResizeNE(s, prev, dxPct, dyPct) ==
    LET newHeight == clamp(s.heightPct - dyPct, Pct(MinExtent), s.topPct + s.heightPct)
        newTop == s.topPct + (s.heightPct - newHeight)
    IN  [prev EXCEPT
            !.topPct = newTop,
            !.widthPct = clamp(s.widthPct + dxPct, Pct(MinExtent), Pct(100) - s.leftPct),
            !.heightPct = newHeight]

\* northwest resize whose left edge follows the pointer unclamped
caseResizeNW_rawLeft(s, prev, dxPct, dyPct) ==
    LET newW == clamp(s.widthPct - dxPct, Pct(MinExtent), s.leftPct + s.widthPct)
        newL == s.leftPct + dxPct
        newH == clamp(s.heightPct - dyPct, Pct(MinExtent), s.topPct + s.heightPct)
        newT == s.topPct + (s.heightPct - newH)
    IN  Position(newT, newL, newW, newH)

caseResizeNW(s, prev, dxPct, dyPct) ==
    LET newW == clamp(s.widthPct - dxPct, Pct(MinExtent), s.leftPct + s.widthPct)
        newL == s.leftPct + (s.widthPct - newW)
        newH == clamp(s.heightPct - dyPct, Pct(MinExtent), s.topPct + s.heightPct)
        newT == s.topPct + (s.heightPct - newH)
    IN  Position(newT, newL, newW, newH)

\* the updater passed to setPos: prev is the live state, drag the ref's value
setPosUpdater(drag, prev, dxPct, dyPct) ==
    LET s == drag.startPos
    IN  CASE drag.type = "move"      -> caseMove(s, prev, dxPct, dyPct)
          [] drag.type = "resize-se" -> caseResizeSE(s, prev, dxPct, dyPct)
          [] drag.type = "resize-sw" -> caseResizeSW(s, prev, dxPct, dyPct)
          [] drag.type = "resize-ne" -> caseResizeNE(s, prev, dxPct, dyPct)
          [] drag.type = "resize-nw" -> caseResizeNW(s, prev, dxPct, dyPct)
          [] OTHER                   -> prev

----------------------------------------------------------------------------
(* Effects *)

\* reseed that keeps the edited rectangle while calibrating
reseedEffect_whenLocked(p, cur) ==
    IF calibrating THEN cur ELSE Position(p.topPct, p.leftPct, p.widthPct, p.heightPct)

\* the reseed effect: setPos of the four props, run whenever one of them changes
reseedEffect(p, cur) == Position(p.topPct, p.leftPct, p.widthPct, p.heightPct)

\* listener effect that forgets the mouseup listener
listenerEffect_moveOnly(cal) == IF cal THEN {"mousemove"} ELSE {}

\* listener effect whose cleanup removes nothing
listenerEffect_noCleanup(cal) ==
    IF cal THEN {"mousemove", "mouseup"} ELSE docListeners

\* the listener effect: its cleanup removes both listeners, its body adds
\* them again when calibrating
listenerEffect(cal) == IF cal THEN {"mousemove", "mouseup"} ELSE {}

\* unmount that leaves the listeners registered
listenerCleanup_leak == docListeners

\* cleanup of the listener effect on unmount
listenerCleanup == {}

cursors(type) ==
    CASE type = "resize-se" -> "nwse-resize"
      [] type = "resize-sw" -> "nesw-resize"
      [] type = "resize-ne" -> "nesw-resize"
      [] type = "resize-nw" -> "nwse-resize"
      [] OTHER              -> ""

----------------------------------------------------------------------------
(* ArcGISMap (src/unnamed/part_001): the effect that picks the auth mode   *)
(* and starts initMap, the continuations of initMap's awaits, and the      *)
(* effect cleanup.  The component state is passed through the operators    *)
(* below as one record M and written back by SetMap.                       *)

\* null
Null == "null"

MapConfig(k, c, w) == [apiKey |-> k, clientId |-> c, webMapId |-> w]

\* unset, the placeholder of the sample .env, and a real value
ApiKeys == {"", "YOUR_API_KEY_HERE", "AAPK-1"}

ClientIds == {"", "YOUR_CLIENT_ID_HERE", "client-1"}

WebMapIds == {"", "YOUR_WEBMAP_ID_HERE", "map-1"}

MapConfigs == {MapConfig(k, c, w) : k \in ApiKeys, c \in ClientIds, w \in WebMapIds}

DefaultMapConfig == MapConfig("AAPK-1", "", "map-1")

\* messages of the errors the ArcGIS calls reject with
MapErrors == {"user-aborted", "Invalid API key"}

\* portal.user: absent, or a user with a name
PortalUsers == {Null, "Ada"}

OAuthCalls == {"registerOAuthInfos", "checkSignInStatus", "getCredential"}

\* the key is used only when no client id is configured
useApiKey_onlyWithoutClientId(cfg) ==
    cfg.apiKey # "" /\ cfg.apiKey # "YOUR_API_KEY_HERE" /\ cfg.clientId = ""

useApiKey(cfg) == cfg.apiKey # "" /\ cfg.apiKey # "YOUR_API_KEY_HERE"

\* a run of initMap: the values its closure captured, its cancelled flag,
\* the await it is suspended at, its map view, and the calls it has made
Run(cfg, pc, view, calls) ==
    [cfg |-> cfg, cancelled |-> FALSE, pc |-> pc, view |-> view, calls |-> calls]

MapState ==
    [status |-> status, errorMessage |-> errorMessage, userName |-> userName,
     authMode |-> authMode, viewRef |-> viewRef, esriApiKey |-> esriApiKey,
     runs |-> runs, activeRun |-> activeRun]

\* the function returned by the effect
effectCleanup(M) ==
    IF M.activeRun = 0 THEN M
    ELSE LET cancelledRuns == [M.runs EXCEPT ![M.activeRun].cancelled = TRUE]
         IN  [M EXCEPT !.runs = IF M.viewRef # 0
                                  THEN [cancelledRuns EXCEPT ![M.viewRef].view = "destroyed"]
                                  ELSE cancelledRuns,
                       !.viewRef = 0,
                       !.activeRun = 0]

\* the effect body up to the first await of initMap; mapRef.current is null
\* when the last render had status "error"
effectBody(M, cfg) ==
    IF M.status = "error" THEN M
    ELSE IF cfg.webMapId = "" \/ cfg.webMapId = "YOUR_WEBMAP_ID_HERE"
      THEN [M EXCEPT !.status = "error",
                     !.errorMessage = "ArcGIS Web Map ID not configured."]
    ELSE IF ~useApiKey(cfg) /\ (cfg.clientId = "" \/ cfg.clientId = "YOUR_CLIENT_ID_HERE")
      THEN [M EXCEPT !.status = "error",
                     !.errorMessage = "Configure ArcGIS: set an API key or a client id."]
    ELSE IF useApiKey(cfg)
      THEN [M EXCEPT !.esriApiKey = cfg.apiKey,
                     !.authMode = "apiKey",
                     !.runs = Append(@, Run(cfg, "view.when", "live",
                                            {"WebMap", "MapView"})),
                     !.viewRef = Len(M.runs) + 1,
                     !.activeRun = Len(M.runs) + 1]
    ELSE [M EXCEPT !.authMode = "oauth",
                   !.status = "authenticating",
                   !.runs = Append(@, Run(cfg, "checkSignInStatus", "none",
                                          {"setStatus(authenticating)",
                                           "registerOAuthInfos", "checkSignInStatus"})),
                   !.activeRun = Len(M.runs) + 1]

\* the error text chosen from the message of the caught error
errorText(msg) ==
    CASE msg = "user-aborted" \/ msg = "ABORTED" -> "Sign-in was cancelled. Click Retry to sign in again."
      [] msg = "User denied" -> "ArcGIS sign-in was cancelled."
      [] msg = "Invalid client_id" -> "Invalid ArcGIS Client ID."
      [] msg = "Item does not exist" -> "Web Map not found."
      [] msg = "Invalid API key" \/ msg = "API key" -> "Invalid ArcGIS API key."
      [] msg = "" -> "Failed to load ArcGIS map."
      [] OTHER -> msg

\* the catch block of initMap
catchBlock(M, i, msg) ==
    IF M.runs[i].cancelled
      THEN [M EXCEPT !.runs[i].pc = "done"]
      ELSE [M EXCEPT !.status = "error",
                     !.errorMessage = errorText(msg),
                     !.runs[i].pc = "done",
                     !.runs[i].calls = @ \cup {"setStatus(error)", "setErrorMessage"}]

\* after `await view.when()`
afterView(M, i) ==
    IF M.runs[i].cancelled
      THEN [M EXCEPT !.runs[i].view = "destroyed", !.runs[i].pc = "done"]
      ELSE [M EXCEPT !.status = "ready",
                     !.runs[i].pc = "done",
                     !.runs[i].calls = @ \cup {"setStatus(ready)"}]

\* after the credential is obtained: the portal is loaded
afterCredential(M, i) ==
    IF M.runs[i].cancelled
      THEN [M EXCEPT !.runs[i].pc = "done"]
      ELSE [M EXCEPT !.runs[i].pc = "portal.load",
                     !.runs[i].calls = @ \cup {"Portal.load"}]

\* after `await portal.load()`: the user name is stored, then the view is made
afterPortal(M, i, user) ==
    LET named == IF user # Null
                   THEN [M EXCEPT !.userName = user,
                                  !.runs[i].calls = @ \cup {"setUserName"}]
                   ELSE M
    IN  IF M.runs[i].cancelled
          THEN [named EXCEPT !.runs[i].pc = "done"]
          ELSE [named EXCEPT !.runs[i].pc = "view.when",
                             !.runs[i].view = "live",
                             !.runs[i].calls = @ \cup {"WebMap", "MapView"},
                             !.viewRef = i]

\* the awaited promise of run i is fulfilled
resolveAwait(M, i, user) ==
    CASE M.runs[i].pc = "view.when" -> afterView(M, i)
      [] M.runs[i].pc = "checkSignInStatus" -> afterCredential(M, i)
      [] M.runs[i].pc = "getCredential" -> afterCredential(M, i)
      [] M.runs[i].pc = "portal.load" -> afterPortal(M, i, user)

\* the awaited promise of run i is rejected: a failed sign-in status check
\* falls back to getCredential, every other rejection reaches the catch block
rejectAwait(M, i, msg) ==
    IF M.runs[i].pc = "checkSignInStatus"
      THEN [M EXCEPT !.runs[i].pc = "getCredential",
                     !.runs[i].calls = @ \cup {"getCredential"}]
      ELSE catchBlock(M, i, msg)

\* M becomes the component's state; state updates of an unmounted component
\* are dropped by React
SetMap(M) ==
    /\ status' = IF mapPhase = "unmounted" THEN status ELSE M.status
    /\ errorMessage' = IF mapPhase = "unmounted" THEN errorMessage ELSE M.errorMessage
    /\ userName' = IF mapPhase = "unmounted" THEN userName ELSE M.userName
    /\ authMode' = IF mapPhase = "unmounted" THEN authMode ELSE M.authMode
    /\ viewRef' = M.viewRef
    /\ esriApiKey' = M.esriApiKey
    /\ runs' = M.runs
    /\ activeRun' = M.activeRun

\* the state after the first render, before the effect has run
InitArcGISMap(cfgs) ==
    /\ mapPhase = "rendered"
    /\ mapConfig \in cfgs
    /\ status = "loading"
    /\ errorMessage = Null
    /\ userName = Null
    /\ authMode = "apiKey"
    /\ viewRef = 0
    /\ esriApiKey = ""
    /\ runs = <<>>
    /\ activeRun = 0

\* the effect runs after the first render
mapEffect ==
    /\ mapPhase = "rendered"
    /\ mapPhase' = "mounted"
    /\ SetMap(effectBody(MapState, mapConfig))
    /\ lastEvent' = Event("map-effect", 0, 0)
    /\ UNCHANGED <<mapConfig, overlayVars, viewVars, listVars>>

\* a resolved key, client id or web map id changes: cleanup, then the effect
changeMapConfig(cfg) ==
    /\ mapPhase = "mounted"
    /\ cfg # mapConfig
    /\ Len(runs) < MaxRuns
    /\ mapConfig' = cfg
    /\ SetMap(effectBody(effectCleanup(MapState), cfg))
    /\ lastEvent' = Event("map-config", 0, 0)
    /\ UNCHANGED <<mapPhase, overlayVars, viewVars, listVars>>

\* the component is torn down: the cleanup runs
unmountMap ==
    /\ mapPhase = "mounted"
    /\ mapPhase' = "unmounted"
    /\ SetMap(effectCleanup(MapState))
    /\ lastEvent' = Event("map-unmount", 0, 0)
    /\ UNCHANGED <<mapConfig, overlayVars, viewVars, listVars>>

\* the await of run i is fulfilled
resolveRun(i, user) ==
    /\ runs[i].pc # "done"
    /\ runs[i].pc # "portal.load" => user = Null
    /\ SetMap(resolveAwait(MapState, i, user))
    /\ lastEvent' = Event("map-resolve", 0, 0)
    /\ UNCHANGED <<mapPhase, mapConfig, overlayVars, viewVars, listVars>>

\* the await of run i is rejected
rejectRun(i, msg) ==
    /\ runs[i].pc # "done"
    /\ SetMap(rejectAwait(MapState, i, msg))
    /\ lastEvent' = Event("map-reject", 0, 0)
    /\ UNCHANGED <<mapPhase, mapConfig, overlayVars, viewVars, listVars>>

----------------------------------------------------------------------------
(* ReportList (src/src/app/reports/ReportList.tsx) *)

ReportIds == {"r1", "r2", "r3", "r4"}

Report(id) == [id |-> id, reportId |-> id, workspaceId |-> "w1"]

\* ordered sequences of distinct report descriptors
Listings ==
    UNION {{l \in [1..n -> {Report(id) : id \in ReportIds}] :
              \A i, j \in 1..n : l[i] = l[j] => i = j} : n \in 0..MaxListing}

\* no report: the null of `selected`
NoReport == [id |-> Null, reportId |-> Null, workspaceId |-> Null]

\* the parsed body: reports and message may each be missing
ListingData ==
    {[hasReports |-> TRUE, reports |-> l, message |-> m] :
        l \in Listings, m \in {Null, "No access for this user."}}
    \cup {[hasReports |-> FALSE, reports |-> <<>>, message |-> m] :
        m \in {Null, "No access for this user."}}

\* a value that is not null and not the empty string
Truthy(v) == v # Null /\ v # ""

firstReport_last(rs) == rs[Len(rs)]

\* data.reports[0]
firstReport(rs) == rs[1]

\* what the render embeds: the selected report, unless loading or a message
embeddedReport ==
    IF loading THEN NoReport
    ELSE IF Truthy(message) THEN NoReport
    ELSE selected

\* the message box of the render
shownMessage ==
    IF loading THEN Null
    ELSE IF Truthy(message) THEN message
    ELSE Null

\* mounted: the effect has issued the fetch
InitReportList ==
    /\ reports = <<>>
    /\ selected = NoReport
    /\ message = Null
    /\ loading = TRUE
    /\ request = "pending"

\* the response arrives and parses as JSON
listingArrives(data) ==
    /\ request = "pending"
    /\ IF data.hasReports /\ Len(data.reports) > 0
         THEN /\ reports' = data.reports
              /\ selected' = firstReport(data.reports)
              /\ UNCHANGED message
         ELSE /\ message' = IF data.message # Null
                              THEN data.message
                              ELSE "No reports assigned."
              /\ UNCHANGED <<reports, selected>>
    /\ loading' = FALSE
    /\ request' = "settled"
    /\ lastEvent' = Event("listing", 0, 0)
    /\ UNCHANGED <<overlayVars, viewVars, mapVars>>

\* the fetch is rejected, or the body is not JSON
listingFails ==
    /\ request = "pending"
    /\ message' = "Failed to load reports."
    /\ loading' = FALSE
    /\ request' = "settled"
    /\ lastEvent' = Event("listing-failed", 0, 0)
    /\ UNCHANGED <<reports, selected, overlayVars, viewVars, mapVars>>

\* click on the button of report reports[i]
selectReport(i) ==
    /\ ~loading
    /\ ~Truthy(message)
    /\ i \in 1..Len(reports)
    /\ selected' = reports[i]
    /\ lastEvent' = Event("select", 0, 0)
    /\ UNCHANGED <<reports, message, loading, request, overlayVars, viewVars, mapVars>>

----------------------------------------------------------------------------
(* Initial state: the component has just been mounted with valid props *)

Init ==
    /\ mounted = TRUE
    /\ props \in PropRects
    /\ enableCalibration \in BOOLEAN
    /\ calibrating = FALSE
    /\ pos = Position(props.topPct, props.leftPct, props.widthPct, props.heightPct)
    /\ dragRef = NoDrag
    /\ docListeners = {}
    /\ bodyUserSelect = ""
    /\ bodyCursor = ""
    /\ gestures = 0
    /\ lastEvent = Event("mount", 0, 0)
    /\ copied = FALSE
    /\ navigatorClipboard = "present"
    /\ clipboardWrites = <<>>
    /\ copiedTimers = 0
    /\ uncaughtError = FALSE
    /\ copies = 0
    /\ overlayBox = NoBox
    /\ InitArcGISMap({DefaultMapConfig})
    /\ InitReportList

----------------------------------------------------------------------------
(* Handlers *)

\* onClick of the calibration toggle button, followed by the listener effect
\* that depends on `calibrating`
toggleCalibrating ==
    /\ mounted
    /\ enableCalibration
    /\ calibrating' = ~calibrating
    /\ docListeners' = listenerEffect(calibrating')
    /\ lastEvent' = Event("toggle", 0, 0)
    /\ UNCHANGED <<mounted, props, enableCalibration, pos, dragRef,
                   bodyUserSelect, bodyCursor, gestures>>
    /\ UNCHANGED viewVars
    /\ UNCHANGED restVars

\* onMouseDown of the drag bar or of a resize handle; the affordances are
\* rendered only while calibrating
startDragBody(type, x, y) ==
    /\ bodyUserSelect' = "none"
    /\ bodyCursor' = IF type # "move" THEN cursors(type) ELSE bodyCursor
    /\ dragRef' = DragState(type, x, y, pos)

startDrag(type, x, y) ==
    /\ mounted
    /\ calibrating
    /\ gestures < MaxGestures
    /\ startDragBody(type, x, y)
    /\ gestures' = gestures + 1
    /\ lastEvent' = Event("mousedown", 0, 0)
    /\ UNCHANGED <<mounted, props, enableCalibration, calibrating, pos,
                   docListeners>>
    /\ UNCHANGED viewVars
    /\ UNCHANGED restVars

\* the document mousemove listener
handleMouseMove(x, y, rect) ==
    /\ "mousemove" \in docListeners
    /\ IF dragRef = NoDrag
         THEN /\ pos' = pos
              /\ lastEvent' = Event("mousemove", 0, 0)
         ELSE LET dxPct == PctDelta(x, dragRef.startX, rect.width)
                  dyPct == PctDelta(y, dragRef.startY, rect.height)
              IN  /\ pos' = setPosUpdater(dragRef, pos, dxPct, dyPct)
                  /\ lastEvent' = Event("mousemove", dxPct, dyPct)
    /\ UNCHANGED <<mounted, props, enableCalibration, calibrating, dragRef,
                   docListeners, bodyUserSelect, bodyCursor, gestures>>
    /\ UNCHANGED viewVars
    /\ UNCHANGED restVars

\* the document mouseup listener
handleMouseUp ==
    /\ "mouseup" \in docListeners
    /\ dragRef' = NoDrag
    /\ bodyUserSelect' = ""
    /\ bodyCursor' = ""
    /\ lastEvent' = Event("mouseup", 0, 0)
    /\ UNCHANGED <<mounted, props, enableCalibration, calibrating, pos,
                   docListeners, gestures>>
    /\ UNCHANGED viewVars
    /\ UNCHANGED restVars

\* the host re-renders the component with other percentage props; the
\* reseed effect runs because one of its dependencies changed
changeProps(p) ==
    /\ mounted
    /\ p # props
    /\ props' = p
    /\ pos' = reseedEffect(p, pos)
    /\ lastEvent' = Event("props", 0, 0)
    /\ UNCHANGED <<mounted, enableCalibration, calibrating, dragRef,
                   docListeners, bodyUserSelect, bodyCursor, gestures>>
    /\ UNCHANGED viewVars
    /\ UNCHANGED restVars

\* the host re-renders the component with another enableCalibration
setEnableCalibration ==
    /\ mounted
    /\ enableCalibration' = ~enableCalibration
    /\ lastEvent' = Event("enable", 0, 0)
    /\ UNCHANGED <<mounted, props, calibrating, pos, dragRef, docListeners,
                   bodyUserSelect, bodyCursor, gestures>>
    /\ UNCHANGED viewVars
    /\ UNCHANGED restVars

\* the component is torn down: effect cleanups run
unmount ==
    /\ mounted
    /\ mounted' = FALSE
    /\ docListeners' = listenerCleanup
    /\ lastEvent' = Event("unmount", 0, 0)
    /\ UNCHANGED <<props, enableCalibration, calibrating, pos, dragRef,
                   bodyUserSelect, bodyCursor, gestures>>
    /\ UNCHANGED viewVars
    /\ UNCHANGED restVars

Next ==
    \/ toggleCalibrating
    \/ \E type \in DragTypes, pt \in ClientPoints :
          startDrag(type, pt[1], pt[2])
    \/ \E pt \in ClientPoints, rect \in ContainerRects :
          handleMouseMove(pt[1], pt[2], rect)
    \/ handleMouseUp
    \/ \E p \in PropRects : changeProps(p)
    \/ setEnableCalibration
    \/ unmount

Spec == Init /\ [][Next]_vars

----------------------------------------------------------------------------
(* The geometry of one gesture: every gesture kind from every anchor of a  *)
(* grid of valid rectangles, under pointer-moves with a wider range of     *)
(* deltas.  The initial states are those reached by mounting with the      *)
(* anchor as props, turning calibration on and pressing on an affordance.  *)

\* <<offset, extent>> in percent on one axis: full, minimal, touching either end, interior
AxisCandidates ==
    {<<0, 100>>, <<0, 5>>, <<95, 5>>, <<5, 5>>, <<10, 10>>, <<25, 65>>,
     <<55, 43>>, <<0, 50>>, <<50, 50>>, <<35, 65>>, <<57, 43>>, <<45, 10>>}

AxisPairs ==
    {a \in AxisCandidates : a[1] >= 0 /\ a[2] >= MinExtent /\ a[1] + a[2] <= 100}

GeomAnchors ==
    {Rect(v[1], h[1], h[2], v[2]) : v \in AxisPairs, h \in AxisPairs}

GeomContainerRects ==
    {[width |-> 200, height |-> 200], [width |-> 100, height |-> 100],
     [width |-> 25, height |-> 100]}

InitGeom ==
    /\ mounted = TRUE
    /\ props \in GeomAnchors
    /\ enableCalibration = TRUE
    /\ calibrating = TRUE
    /\ pos = Position(props.topPct, props.leftPct, props.widthPct, props.heightPct)
    /\ \E type \in DragTypes, x \in ClientCoords, y \in ClientCoords :
          /\ dragRef = DragState(type, x, y, pos)
          /\ bodyCursor = cursors(type)
    /\ docListeners = listenerEffect(calibrating)
    /\ bodyUserSelect = "none"
    /\ gestures = 1
    /\ lastEvent = Event("mousedown", 0, 0)
    /\ copied = FALSE
    /\ navigatorClipboard = "present"
    /\ clipboardWrites = <<>>
    /\ copiedTimers = 0
    /\ uncaughtError = FALSE
    /\ copies = 0
    /\ overlayBox = NoBox
    /\ InitArcGISMap({DefaultMapConfig})
    /\ InitReportList

NextGeom ==
    \E x \in ClientCoords, y \in ClientCoords, rect \in GeomContainerRects :
        handleMouseMove(x, y, rect)

SpecGeom == InitGeom /\ [][NextGeom]_vars

----------------------------------------------------------------------------
(* Copy-out: copyProps formats the live rectangle and hands the text to    *)
(* the asynchronous clipboard API.                                         *)

Abs(n) == IF n < 0 THEN -n ELSE n

\* the decimal string of a number with one fraction digit, as its sign,
\* integer part and fraction digit: digits cut off instead of rounded
toFixed1_truncate(q) ==
    LET n == (10 * Abs(q)) \div Pct(1)
    IN  [neg |-> q < 0 /\ n # 0, whole |-> n \div 10, tenth |-> n % 10]

\* Number.prototype.toFixed(1): n is the integer for which n / 10 - x is as
\* close to zero as possible, the larger n if there are two
toFixed1(q) ==
    LET n == (2 * 10 * Abs(q) + Pct(1)) \div (2 * Pct(1))
    IN  [neg |-> q < 0, whole |-> n \div 10, tenth |-> n % 10]

\* the line `name={value}`
PropLine(name, value) == [name |-> name, value |-> value]

\* the four lines joined by "\n", as the sequence of the lines
exportText(p) ==
    <<PropLine("mapTopPct", toFixed1(p.topPct)),
      PropLine("mapLeftPct", toFixed1(p.leftPct)),
      PropLine("mapWidthPct", toFixed1(p.widthPct)),
      PropLine("mapHeightPct", toFixed1(p.heightPct))>>

\* click on the Copy Props button of the info panel.  Where
\* navigator.clipboard is undefined the member access throws before any
\* promise exists, so the .catch never sees it
copyProps ==
    /\ mounted
    /\ calibrating
    /\ copies < MaxCopies
    /\ copies' = copies + 1
    /\ IF navigatorClipboard = "present"
          THEN /\ clipboardWrites' = Append(clipboardWrites, exportText(pos))
               /\ UNCHANGED uncaughtError
          ELSE /\ uncaughtError' = TRUE
               /\ UNCHANGED clipboardWrites
    /\ lastEvent' = Event("copy", 0, 0)
    /\ UNCHANGED <<mounted, props, enableCalibration, calibrating, pos, dragRef,
                   docListeners, bodyUserSelect, bodyCursor, gestures>>
    /\ UNCHANGED <<copied, navigatorClipboard, copiedTimers, overlayBox>>
    /\ UNCHANGED restVars

\* the oldest pending write succeeds: the .then callback runs
writeFulfilled ==
    /\ clipboardWrites # <<>>
    /\ clipboardWrites' = Tail(clipboardWrites)
    /\ copied' = TRUE
    /\ copiedTimers' = copiedTimers + 1
    /\ lastEvent' = Event("copy-fulfilled", 0, 0)
    /\ UNCHANGED <<mounted, props, enableCalibration, calibrating, pos, dragRef,
                   docListeners, bodyUserSelect, bodyCursor, gestures>>
    /\ UNCHANGED <<navigatorClipboard, uncaughtError, copies, overlayBox>>
    /\ UNCHANGED restVars

\* the oldest pending write is rejected: the empty .catch callback runs
writeRejected ==
    /\ clipboardWrites # <<>>
    /\ clipboardWrites' = Tail(clipboardWrites)
    /\ lastEvent' = Event("copy-rejected", 0, 0)
    /\ UNCHANGED <<mounted, props, enableCalibration, calibrating, pos, dragRef,
                   docListeners, bodyUserSelect, bodyCursor, gestures>>
    /\ UNCHANGED <<copied, navigatorClipboard, copiedTimers, uncaughtError,
                   copies, overlayBox>>
    /\ UNCHANGED restVars

\* a 2000 ms timer fires
copiedTimeout ==
    /\ copiedTimers > 0
    /\ copiedTimers' = copiedTimers - 1
    /\ copied' = FALSE
    /\ lastEvent' = Event("copy-timeout", 0, 0)
    /\ UNCHANGED <<mounted, props, enableCalibration, calibrating, pos, dragRef,
                   docListeners, bodyUserSelect, bodyCursor, gestures>>
    /\ UNCHANGED <<navigatorClipboard, clipboardWrites, uncaughtError, copies,
                   overlayBox>>
    /\ UNCHANGED restVars

\* props with fractions that round up, round down and tie at one decimal
CopyPropRects == {DefaultProps, Position(99, 84, 167, 242)}

\* a container in which the pointer deltas are 12.5 percent
CopyContainerRects == {[width |-> 400, height |-> 800]}

\* the top bar and one resize handle
CopyDragTypes == {"move", "resize-se"}

\* mounted in a page with or without the clipboard API
InitCopy ==
    /\ mounted = TRUE
    /\ props \in CopyPropRects
    /\ enableCalibration = TRUE
    /\ calibrating = FALSE
    /\ pos = Position(props.topPct, props.leftPct, props.widthPct, props.heightPct)
    /\ dragRef = NoDrag
    /\ docListeners = {}
    /\ bodyUserSelect = ""
    /\ bodyCursor = ""
    /\ gestures = 0
    /\ lastEvent = Event("mount", 0, 0)
    /\ copied = FALSE
    /\ navigatorClipboard \in {"present", "undefined"}
    /\ clipboardWrites = <<>>
    /\ copiedTimers = 0
    /\ uncaughtError = FALSE
    /\ copies = 0
    /\ overlayBox = NoBox
    /\ InitArcGISMap({DefaultMapConfig})
    /\ InitReportList

NextCopy ==
    \/ toggleCalibrating
    \/ \E type \in CopyDragTypes : startDrag(type, 0, 0)
    \/ \E pt \in ClientPoints, rect \in CopyContainerRects :
          handleMouseMove(pt[1], pt[2], rect)
    \/ handleMouseUp
    \/ copyProps
    \/ writeFulfilled
    \/ writeRejected
    \/ copiedTimeout

SpecCopy == InitCopy /\ [][NextCopy]_vars

----------------------------------------------------------------------------
(* Layout: the overlay box is absolutely positioned in a wrapper that      *)
(* fills the report container (`absolute inset-0` inside `relative`), with *)
(* top, left, width and height given as percentages.  CSS resolves left    *)
(* and width against the width of the containing block, top and height     *)
(* against its height.                                                     *)

\* host boxes in pixels; extents are multiples of 100 so every box is exact
HostBoxes ==
    {[x |-> 0, y |-> 0, w |-> 1000, h |-> 500],
     [x |-> 40, y |-> 80, w |-> 400, h |-> 800],
     [x |-> 0, y |-> 120, w |-> 600, h |-> 600]}

\* the inline style of the overlay box, in percent of the wrapper
overlayStyle(p) ==
    [top |-> p.topPct, left |-> p.leftPct, width |-> p.widthPct, height |-> p.heightPct]

\* every percentage resolved against the width of the host
cssBox_allByWidth(host, style) ==
    [x |-> host.x + (style.left * host.w) \div Pct(100),
     y |-> host.y + (style.top * host.w) \div Pct(100),
     w |-> (style.width * host.w) \div Pct(100),
     h |-> (style.height * host.w) \div Pct(100)]

\* the used pixel box of an absolutely positioned element with that style
cssBox(host, style) ==
    [x |-> host.x + (style.left * host.w) \div Pct(100),
     y |-> host.y + (style.top * host.h) \div Pct(100),
     w |-> (style.width * host.w) \div Pct(100),
     h |-> (style.height * host.h) \div Pct(100)]

\* the browser lays the component out in a host box
renderOverlay(host) ==
    /\ mounted
    /\ overlayBox' = [host |-> host, box |-> cssBox(host, overlayStyle(pos))]
    /\ lastEvent' = Event("render", 0, 0)
    /\ UNCHANGED <<mounted, props, enableCalibration, calibrating, pos, dragRef,
                   docListeners, bodyUserSelect, bodyCursor, gestures>>
    /\ UNCHANGED <<copied, navigatorClipboard, clipboardWrites, copiedTimers,
                   uncaughtError, copies>>
    /\ UNCHANGED restVars

\* mounted with any rectangle of the grid as props
InitLayout ==
    /\ mounted = TRUE
    /\ props \in GeomAnchors
    /\ enableCalibration \in BOOLEAN
    /\ calibrating = FALSE
    /\ pos = Position(props.topPct, props.leftPct, props.widthPct, props.heightPct)
    /\ dragRef = NoDrag
    /\ docListeners = {}
    /\ bodyUserSelect = ""
    /\ bodyCursor = ""
    /\ gestures = 0
    /\ lastEvent = Event("mount", 0, 0)
    /\ copied = FALSE
    /\ navigatorClipboard = "present"
    /\ clipboardWrites = <<>>
    /\ copiedTimers = 0
    /\ uncaughtError = FALSE
    /\ copies = 0
    /\ overlayBox = NoBox
    /\ InitArcGISMap({DefaultMapConfig})
    /\ InitReportList

NextLayout ==
    \/ \E host \in HostBoxes : renderOverlay(host)
    \/ \E p \in PropRects : changeProps(p)

SpecLayout == InitLayout /\ [][NextLayout]_vars

----------------------------------------------------------------------------
(* The map component under every configuration, with reconfiguration and  *)
(* teardown at any await; and the reports page under every response.       *)

\* the overlay as mounted with its default props, left alone
OverlayIdle ==
    /\ mounted = TRUE
    /\ props = DefaultProps
    /\ enableCalibration = TRUE
    /\ calibrating = FALSE
    /\ pos = Position(props.topPct, props.leftPct, props.widthPct, props.heightPct)
    /\ dragRef = NoDrag
    /\ docListeners = {}
    /\ bodyUserSelect = ""
    /\ bodyCursor = ""
    /\ gestures = 0
    /\ lastEvent = Event("mount", 0, 0)
    /\ copied = FALSE
    /\ navigatorClipboard = "present"
    /\ clipboardWrites = <<>>
    /\ copiedTimers = 0
    /\ uncaughtError = FALSE
    /\ copies = 0
    /\ overlayBox = NoBox

InitMap ==
    /\ OverlayIdle
    /\ InitArcGISMap(MapConfigs)
    /\ InitReportList

NextMap ==
    \/ mapEffect
    \/ \E cfg \in MapConfigs : changeMapConfig(cfg)
    \/ unmountMap
    \/ \E i \in 1..Len(runs), user \in PortalUsers : resolveRun(i, user)
    \/ \E i \in 1..Len(runs), msg \in MapErrors : rejectRun(i, msg)

SpecMap == InitMap /\ [][NextMap]_vars

InitList ==
    /\ OverlayIdle
    /\ InitArcGISMap({DefaultMapConfig})
    /\ InitReportList

NextList ==
    \/ \E data \in ListingData : listingArrives(data)
    \/ listingFails
    \/ \E i \in 1..MaxListing : selectReport(i)

SpecList == InitList /\ [][NextList]_vars

----------------------------------------------------------------------------
(* Properties *)

BothListeners == {"mousemove", "mouseup"}

\* the mathematical clamp of v to [lo, hi], for lo <= hi
Within(v, lo, hi) == IF v < lo THEN lo ELSE IF v > hi THEN hi ELSE v

\* C1: in every reachable state of the component the current rectangle
\* satisfies the ProportionalRect invariant (inside the container, extents
\* not below the minimum).
C1_RectAlwaysValid == IsValid(pos)

\* C2: the rectangle computed by a pointer-move from a valid anchor, for
\* every gesture kind and delta, satisfies the ProportionalRect invariant and
\* has all four fields within [0, 100].
C2_MoveResultValid ==
    (dragRef # NoDrag /\ IsValid(dragRef.startPos) /\ lastEvent.name = "mousemove")
        => /\ IsValid(pos)
           /\ \A f \in {"topPct", "leftPct", "widthPct", "heightPct"} :
                 pos[f] >= 0 /\ pos[f] <= Pct(100)

\* a resize from the southwest pushed to the minimum width
C2_Witness ==
    /\ lastEvent.name = "mousemove"
    /\ dragRef.type = "resize-sw"
    /\ IsValid(dragRef.startPos)
    /\ dragRef.startPos.widthPct > Pct(MinExtent)
    /\ pos.widthPct = Pct(MinExtent)

\* C3: a pointer-down while a gesture is in progress leaves the gesture kind,
\* anchor pointer position and anchor rectangle of the first pointer-down.
C3_SecondPointerDownIsNoOp ==
    [][(dragRef # NoDrag /\ lastEvent'.name = "mousedown") => dragRef' = dragRef]_vars

\* C4: a gesture exists only while calibration mode is active (turning
\* calibration off ends the gesture in progress).
C4_GestureOnlyWhileCalibrating == dragRef # NoDrag => calibrating

\* C5: when the percentage props change while no gesture is in progress,
\* the current rectangle is exactly the new props, calibrating or not.
C5_ReseedReplacesRect ==
    (lastEvent.name = "props" /\ dragRef = NoDrag) => pos = props

\* props changed during an active session after a completed gesture
C5_Witness ==
    /\ lastEvent.name = "props"
    /\ dragRef = NoDrag
    /\ calibrating
    /\ gestures >= 1
    /\ pos = props

C7_ListenersReleasedOnExit ==
    (~calibrating \/ ~mounted) => docListeners = {}

\* torn down in the middle of a gesture of an active session
C7_Witness ==
    /\ ~mounted
    /\ calibrating
    /\ dragRef # NoDrag
    /\ docListeners = {}

\* C8: after a pointer-move of a northwest resize the southeast corner is
\* the southeast corner of the anchor rectangle.
C8_NorthwestKeepsSoutheastCorner ==
    (dragRef.type = "resize-nw" /\ lastEvent.name = "mousemove")
        => /\ pos.topPct + pos.heightPct
                = dragRef.startPos.topPct + dragRef.startPos.heightPct
           /\ pos.leftPct + pos.widthPct
                = dragRef.startPos.leftPct + dragRef.startPos.widthPct

\* a northwest resize that moved both edges
C8_Witness ==
    /\ dragRef.type = "resize-nw"
    /\ lastEvent.name = "mousemove"
    /\ pos.topPct # dragRef.startPos.topPct
    /\ pos.leftPct # dragRef.startPos.leftPct

\* C9: a pointer-move with dx = 0 and dy = 0 yields the anchor rectangle,
\* for every gesture kind and every valid anchor.
C9_ZeroDeltaIsIdentity ==
    (dragRef # NoDrag /\ lastEvent = Event("mousemove", 0, 0))
        => pos = dragRef.startPos

\* a zero-delta pointer-move of a gesture
C9_Witness ==
    /\ dragRef # NoDrag
    /\ dragRef.type = "move"
    /\ lastEvent = Event("mousemove", 0, 0)
    /\ pos = dragRef.startPos

\* C10: a move gesture yields top = clamp(anchor.top + dy, 0, 100 - anchor.height),
\* left = clamp(anchor.left + dx, 0, 100 - anchor.width), width and height
\* unchanged, inside the container; from {25, 55, 43, 65} with dx = -200,
\* dy = 0 the result is {25, 0, 43, 65}.
C10_MoveRule ==
    (dragRef.type = "move" /\ lastEvent.name = "mousemove")
        => LET s == dragRef.startPos
           IN  /\ pos.topPct = Within(s.topPct + lastEvent.dyPct, 0, Pct(100) - s.heightPct)
               /\ pos.leftPct = Within(s.leftPct + lastEvent.dxPct, 0, Pct(100) - s.widthPct)
               /\ pos.widthPct = s.widthPct
               /\ pos.heightPct = s.heightPct
               /\ pos.topPct >= 0 /\ pos.topPct + pos.heightPct <= Pct(100)
               /\ pos.leftPct >= 0 /\ pos.leftPct + pos.widthPct <= Pct(100)
               /\ (s = Rect(25, 55, 43, 65) /\ lastEvent.dxPct = Pct(-200)
                     /\ lastEvent.dyPct = 0)
                    => pos = Rect(25, 0, 43, 65)

\* the move of the default rectangle by dx = -200, dy = 0
C10_Witness ==
    /\ dragRef.type = "move"
    /\ dragRef.startPos = Rect(25, 55, 43, 65)
    /\ lastEvent = Event("mousemove", Pct(-200), 0)
    /\ pos = Rect(25, 0, 43, 65)

\* C11: a southeast resize yields width = clamp(anchor.width + dx, 5, 100 - anchor.left),
\* height = clamp(anchor.height + dy, 5, 100 - anchor.top), top and left
\* unchanged; from {10, 10, 10, 10} with dx = dy = -50 the result has
\* width = 5 and height = 5, never zero or negative.
C11_SoutheastRule ==
    (dragRef.type = "resize-se" /\ lastEvent.name = "mousemove")
        => LET s == dragRef.startPos
           IN  /\ pos.widthPct = Within(s.widthPct + lastEvent.dxPct, Pct(5), Pct(100) - s.leftPct)
               /\ pos.heightPct = Within(s.heightPct + lastEvent.dyPct, Pct(5), Pct(100) - s.topPct)
               /\ pos.topPct = s.topPct
               /\ pos.leftPct = s.leftPct
               /\ pos.widthPct > 0 /\ pos.heightPct > 0
               /\ (s = Rect(10, 10, 10, 10) /\ lastEvent.dxPct = Pct(-50)
                     /\ lastEvent.dyPct = Pct(-50))
                    => pos = Rect(10, 10, 5, 5)

\* the southeast resize of {10, 10, 10, 10} by dx = dy = -50
C11_Witness ==
    /\ dragRef.type = "resize-se"
    /\ dragRef.startPos = Rect(10, 10, 10, 10)
    /\ lastEvent = Event("mousemove", Pct(-50), Pct(-50))
    /\ pos = Rect(10, 10, 5, 5)

\* C20: a southwest resize keeps the right edge (left + width) and the top of
\* the anchor; a northeast resize keeps the bottom edge (top + height) and
\* the left of the anchor.
C20_MixedCornersKeepFarEdge ==
    LET s == dragRef.startPos
    IN  /\ (dragRef.type = "resize-sw" /\ lastEvent.name = "mousemove")
              => /\ pos.leftPct + pos.widthPct = s.leftPct + s.widthPct
                 /\ pos.topPct = s.topPct
        /\ (dragRef.type = "resize-ne" /\ lastEvent.name = "mousemove")
              => /\ pos.topPct + pos.heightPct = s.topPct + s.heightPct
                 /\ pos.leftPct = s.leftPct

\* a southwest resize that moved the left edge and changed the height
C20_Witness ==
    /\ dragRef.type = "resize-sw"
    /\ lastEvent.name = "mousemove"
    /\ pos.leftPct # dragRef.startPos.leftPct
    /\ pos.heightPct # dragRef.startPos.heightPct

\* C17: the current rectangle is changed only by a pointer-move during a
\* gesture while calibration is active, or by a reseed from the props; a
\* pointer-move with no gesture in progress or with calibration inactive
\* leaves it unchanged.
C17_RectChangesOnlyByGestureOrReseed ==
    [][pos' # pos =>
          \/ (lastEvent'.name = "mousemove" /\ dragRef # NoDrag /\ calibrating)
          \/ lastEvent'.name = "props"]_vars

\* a pointer-move with no gesture in progress left an edited rectangle alone
C17_Witness ==
    /\ lastEvent.name = "mousemove"
    /\ dragRef = NoDrag
    /\ calibrating
    /\ gestures >= 1
    /\ pos # props

\* C18: after a pointer-move during a gesture all four fields of the current
\* rectangle are those computed from the anchor snapshot and the latest
\* delta alone, whatever the rectangle was just before the move.
C18_FrameIsFunctionOfAnchor ==
    (lastEvent.name = "mousemove" /\ dragRef # NoDrag)
        => pos = setPosUpdater(dragRef, dragRef.startPos,
                               lastEvent.dxPct, lastEvent.dyPct)

\* C19: whenever no gesture is in progress (after pointer-up, with
\* calibration toggled off, after teardown) the body's user-select and
\* cursor overrides are cleared.
C19_BodyStylesOnlyDuringGesture ==
    (dragRef = NoDrag \/ ~calibrating \/ ~mounted)
        => (bodyUserSelect = "" /\ bodyCursor = "")

\* C12: the overlay's box is the host box scaled by the rectangle's
\* percentages: x = host.x + left% of host.w, y = host.y + top% of host.h,
\* w = width% of host.w, h = height% of host.h; in host {0, 0, 1000, 500}
\* the rectangle {25, 55, 43, 65} gives {x 550, y 125, w 430, h 325}
C12_OverlayBoxIsScaledHost ==
    lastEvent.name = "render" =>
        LET host == overlayBox.host
            box == overlayBox.box
        IN  /\ Pct(100) * (box.x - host.x) = pos.leftPct * host.w
            /\ Pct(100) * (box.y - host.y) = pos.topPct * host.h
            /\ Pct(100) * box.w = pos.widthPct * host.w
            /\ Pct(100) * box.h = pos.heightPct * host.h
            /\ (host = [x |-> 0, y |-> 0, w |-> 1000, h |-> 500]
                    /\ pos = Rect(25, 55, 43, 65))
                  => box = [x |-> 550, y |-> 125, w |-> 430, h |-> 325]

C12_Witness ==
    /\ lastEvent.name = "render"
    /\ pos = Rect(25, 55, 43, 65)
    /\ overlayBox = [host |-> [x |-> 0, y |-> 0, w |-> 1000, h |-> 500],
                     box |-> [x |-> 550, y |-> 125, w |-> 430, h |-> 325]]

\* the number of tenths a formatted value stands for
Tenths(v) == 10 * v.whole + v.tenth

\* the formatted value v is the number q rounded to one decimal place
IsRoundedToOneDecimal(v, q) ==
    /\ v.tenth \in 0..9
    /\ v.whole >= 0
    /\ v.neg = (q < 0)
    /\ 2 * Abs(Pct(1) * Tenths(v) - 10 * Abs(q)) <= Pct(1)

\* C13: the export is exactly four lines name={value}, in the order
\* mapTopPct, mapLeftPct, mapWidthPct, mapHeightPct, each value the
\* rectangle's field rounded to one decimal place, and exporting changes
\* neither the rectangle, nor the gesture, nor the calibration flag
C13_ExportFourRoundedLines ==
    [][lastEvent'.name = "copy" =>
         /\ pos' = pos
         /\ dragRef' = dragRef
         /\ calibrating' = calibrating
         /\ navigatorClipboard = "present" =>
               LET text == clipboardWrites'[Len(clipboardWrites')]
               IN  /\ Len(clipboardWrites') = Len(clipboardWrites) + 1
                   /\ Len(text) = 4
                   /\ <<text[1].name, text[2].name, text[3].name, text[4].name>>
                        = <<"mapTopPct", "mapLeftPct", "mapWidthPct", "mapHeightPct">>
                   /\ IsRoundedToOneDecimal(text[1].value, pos.topPct)
                   /\ IsRoundedToOneDecimal(text[2].value, pos.leftPct)
                   /\ IsRoundedToOneDecimal(text[3].value, pos.widthPct)
                   /\ IsRoundedToOneDecimal(text[4].value, pos.heightPct)]_vars

\* an export during a gesture of a rectangle with fractions: 12.375 is
\* written as 12.4 and 20.875 as 20.9
C13_Witness ==
    /\ lastEvent.name = "copy"
    /\ dragRef # NoDrag
    /\ pos = Position(99, 84, 167, 242)
    /\ clipboardWrites # <<>>
    /\ LET text == clipboardWrites[Len(clipboardWrites)]
       IN  /\ text[1] = PropLine("mapTopPct", [neg |-> FALSE, whole |-> 12, tenth |-> 4])
           /\ text[3] = PropLine("mapWidthPct", [neg |-> FALSE, whole |-> 20, tenth |-> 9])

\* C14: a failure of the clipboard write is never surfaced, whether the
\* write succeeds, is rejected, or the page has no clipboard access: no
\* error reaches the host page, and on failure the copied indicator is not
\* set and the rectangle is unchanged
C14_CopyFailureNotSurfaced ==
    [][/\ ~uncaughtError'
       /\ (\/ lastEvent'.name = "copy-rejected"
           \/ lastEvent'.name = "copy" /\ navigatorClipboard = "undefined")
            => (copied' = copied /\ pos' = pos)]_vars

\* a key that is set and is not the placeholder
IsUsableKey(k) == k # "" /\ k # "YOUR_API_KEY_HERE"

StateSetters ==
    {"setStatus(authenticating)", "setStatus(ready)", "setStatus(error)",
     "setErrorMessage", "setUserName"}

\* C21: once a run of initMap has been cancelled by the effect cleanup
\* (teardown or a change of key, client id or web map id), it makes no
\* further update of status, user name or error message, at whichever await
\* the cancellation falls, and a map view it created is destroyed
C21_CancelledRunIsSilent ==
    [][\A i \in 1..Len(runs) :
          runs[i].cancelled =>
              /\ (runs'[i].calls \cap StateSetters) \subseteq runs[i].calls
              /\ runs[i].view # "live"
              /\ runs'[i].view # "live"]_vars

\* C22: calibration mode is active only while the calibration-enabled
\* option is true, also after the option goes from true to false during a
\* calibration session: calibrating implies enableCalibration, so the drag
\* and resize affordances are never shown without the toggle
C22_CalibratingOnlyWhileEnabled == (mounted /\ calibrating) => enableCalibration
====
